---- MODULE Spec2Model ----
(***************************************************************************)
(* Hyperparameter study analysis (improved_study_analysis.py,              *)
(* improved_study_driver_analysis.py, study_analysis.py,                   *)
(* study_trial_analysis.py) and the trial launcher                         *)
(* (run_parallel_optim_trials.py).                                         *)
(*                                                                         *)
(* A study is a sequence of trials; every analysis script loads it, keeps  *)
(* the COMPLETE trials and derives a hierarchy map, an elite trial set, a  *)
(* parameter ranking and a convergence signal.                             *)
(*                                                                         *)
(* Hyperparameter names are represented by their rank in Python's string   *)
(* order: name 1 sorts before name 2, and so on ("A" = 1, "B" = 2, ...).   *)
(* Parameter values are pairs <<type, text>>; str() returns the text.      *)
(* Importance scores and objective values are integers (scaled).           *)
(***************************************************************************)
EXTENDS Integers, Sequences, FiniteSets

VARIABLES trials, direction, importance, evaluator_ok, iter_order, pc,
          hierarchy, elite_trials, sorted_params, top_params_list,
          n_params, n_top_params, n_elite_trials, convergence_count, status,
          support, volatility, dynamic_target, trials_needed, exported, error,
          args, tools, called, lpc, trial_num, run_timestamp, clock, jobs,
          launch_error

vars == <<trials, direction, importance, evaluator_ok, iter_order, pc,
          hierarchy, elite_trials, sorted_params, top_params_list,
          n_params, n_top_params, n_elite_trials, convergence_count, status,
          support, volatility, dynamic_target, trials_needed, exported, error,
          args, tools, called, lpc, trial_num, run_timestamp, clock, jobs,
          launch_error>>

\* what a script reports
results == <<hierarchy, elite_trials, sorted_params, top_params_list,
             n_params, n_top_params, n_elite_trials, convergence_count, status,
             support, volatility, dynamic_target, trials_needed, exported>>

outputs == <<results, error>>

\* the study, the evaluator and the interpreter's set iteration order
environment == <<direction, importance, evaluator_ok, iter_order>>

\* the launcher: its arguments, the tools installed, the function called,
\* its position, the loop variable, the timestamp taken, the time, the job
\* processes started so far and the exception it ended with
launcher == <<args, tools, called, lpc, trial_num, run_timestamp, clock, jobs,
              launch_error>>

\* the analysis scripts: the study they load and what they report
analysis == <<trials, environment, pc, outputs>>

----------------------------------------------------------------------------
(* Bounds of the model *)

\* names 1..MaxNames in the small studies
MaxNames == 3

\* trials of a study in SpecHier, SpecElite and SpecConv
HierTrials == 3

EliteTrials == 4

ConvTrials == 4

\* objective values 1..MaxValue and importance scores 0..MaxScore
MaxValue == 3

MaxScore == 2

\* completed trials and hyperparameters of the large studies of SpecPolicy
MaxCompleted == 40

MaxParams == 13

\* the value shift of the steady large studies
SteadyBase == 364

\* trials of a study in SpecStore, SpecNull and SpecOrder
StoreTrials == 3

NullTrials == 3

OrderTrials == 2

\* --num_trials ranges over -1..MaxTrials, --gpu_ids over lists of up to
\* MaxGpuParts comma-separated parts
MaxTrials == 2

MaxGpuParts == 2

----------------------------------------------------------------------------
(* Python helpers *)

Min(a, b) == IF a < b THEN a ELSE b

Max(a, b) == IF a > b THEN a ELSE b

Range(s) == {s[i] : i \in DOMAIN s}

\* seq[:k]
Slice(s, k) == SubSeq(s, 1, Min(k, Len(s)))

\* sorted(list(S)) for a set of names
RECURSIVE SortedNames(_)
SortedNames(S) ==
    IF S = {} THEN << >>
    ELSE LET m == CHOOSE x \in S : \A y \in S : x <= y
         IN <<m>> \o SortedNames(S \ {m})

\* round(n * 0.25): nearest integer, a tie going to the even neighbour
Round25(n) ==
    LET q == n \div 4
        r == n % 4
    IN IF r = 0 \/ r = 1 THEN q
       ELSE IF r = 3 THEN q + 1
       ELSE IF q % 2 = 0 THEN q ELSE q + 1

\* int(n * 0.25): 0.25 is exact in binary floating point, int() truncates
Int25(n) == (25 * n) \div 100

\* str(v) of a parameter value <<type, text>>
Str(v) == v[2]

PyNone == <<"NoneType", "None">>

\* t.params.get(p)
ParamGet(t, p) == IF p \in DOMAIN t.params THEN t.params[p] ELSE PyNone

RECURSIVE InsertName(_, _)
InsertName(s, x) ==
    IF s = << >> THEN <<x>>
    ELSE IF Head(s) <= x THEN <<Head(s)>> \o InsertName(Tail(s), x)
         ELSE <<x>> \o s

\* the list left in the order the set was iterated (a faulty variant)
UnsortedList(s) == s

\* sorted(s) for a list of names
RECURSIVE SortList(_)
SortList(s) ==
    IF s = << >> THEN << >> ELSE InsertName(SortList(Tail(s)), Head(s))

\* t.value of a trial that has no value (None)
NoneValue == -1

RECURSIVE Sum(_)
Sum(s) == IF s = << >> THEN 0 ELSE Head(s) + Sum(Tail(s))

RECURSIVE SumSq(_)
SumSq(s) == IF s = << >> THEN 0 ELSE Head(s) * Head(s) + SumSq(Tail(s))

\* np.std(values) / np.mean(values) as the fraction num / den of its square:
\* std^2 / mean^2 = (n * sum(x^2) - sum(x)^2) / sum(x)^2
StdOverMean(values) ==
    [num |-> Len(values) * SumSq(values) - Sum(values) * Sum(values),
     den |-> Sum(values) * Sum(values)]

\* mean_acc > 0 (the mean of an empty list is nan or 0: not greater than 0)
MeanPositive(values) == values # << >> /\ Sum(values) > 0

\* volatility > 0.1 (volatility is never negative)
Above10Percent(v) == 100 * v.num > v.den

\* 10 if volatility > 0.1 else 5
Multiplier(v) == IF Above10Percent(v) THEN 10 ELSE 5

\* the remaining trials without the clamp at 0 (a faulty variant)
RemainingSigned(target, n) == target - n

\* max(0, dynamic_target - len(completed))
Remaining(target, n) == Max(0, target - n)

----------------------------------------------------------------------------
(* The importance evaluator's result: an ordered dict, here a sequence of  *)
(* [name, score] with distinct names.                                      *)

ImportanceKeys(imp) == [i \in DOMAIN imp |-> imp[i].name]

\* importance_scores.get(x, 0)
ImportanceGet(imp, x) ==
    IF \E i \in DOMAIN imp : imp[i].name = x
    THEN imp[CHOOSE i \in DOMAIN imp : imp[i].name = x].score
    ELSE 0

----------------------------------------------------------------------------
(* Shared steps of the analysis scripts *)

IsComplete(t) == t.state = "COMPLETE"

\* completed = [t for t in study.trials if t.state == COMPLETE]
RECURSIVE Completed(_)
Completed(trs) ==
    IF trs = << >> THEN << >>
    ELSE IF IsComplete(Head(trs)) THEN <<Head(trs)>> \o Completed(Tail(trs))
         ELSE Completed(Tail(trs))

\* set().union(*(t.params.keys() for t in completed))
ParamNameSet(completed) == UNION {DOMAIN t.params : t \in Range(completed)}

\* list(S): the names of S in the interpreter's iteration order
ListOfSet(S, order) == SelectSeq(order, LAMBDA x : x \in S)

\* sorted(list(set().union(*(t.params.keys() for t in completed))))
AllParamNames(completed, order) ==
    SortList(ListOfSet(ParamNameSet(completed), order))

\* values = [t.value for t in completed if t.value is not None]
RECURSIVE CompletedValues(_)
CompletedValues(completed) ==
    IF completed = << >> THEN << >>
    ELSE IF Head(completed).value # NoneValue
         THEN <<Head(completed).value>> \o CompletedValues(Tail(completed))
         ELSE CompletedValues(Tail(completed))

\* (std_acc / mean_acc) if mean_acc > 0 else 0
ImprovedVolatility(values) ==
    IF MeanPositive(values) THEN StdOverMean(values) ELSE [num |-> 0, den |-> 1]

\* (std_acc / mean_acc) if mean_acc > 0 else 1.0
LegacyVolatility(values) ==
    IF MeanPositive(values) THEN StdOverMean(values) ELSE [num |-> 1, den |-> 1]

\* sorted(completed, key=lambda t: t.value, ...) compares None with a number
SortRaises(completed) ==
    /\ Len(completed) >= 2
    /\ \E t \in Range(completed) : t.value = NoneValue

\* presence[p] = set(t.number for t in completed_trials if p in t.params)
Presence(completed, p) ==
    {t.number : t \in {u \in Range(completed) : p \in DOMAIN u.params}}

Global == [kind |-> "Global", parent |-> 0]

SubOf(p) == [kind |-> "SubOf", parent |-> p]

\* the parent test with >= in place of > (a faulty variant)
QualifiesNonStrict(completed, child, parent) ==
    /\ Presence(completed, child) \subseteq Presence(completed, parent)
    /\ Cardinality(Presence(completed, parent))
         >= Cardinality(Presence(completed, child))

\* presence[child].issubset(presence[parent]) and
\* len(presence[parent]) > len(presence[child])
Qualifies(completed, child, parent) ==
    /\ Presence(completed, child) \subseteq Presence(completed, parent)
    /\ Cardinality(Presence(completed, parent))
         > Cardinality(Presence(completed, child))

\* the inner loop with its break left out (a faulty variant)
RECURSIVE ScanParentsNoBreak(_, _, _, _)
ScanParentsNoBreak(completed, child, names, entry) ==
    IF names = << >> THEN entry
    ELSE IF Head(names) # child /\ Qualifies(completed, child, Head(names))
         THEN ScanParentsNoBreak(completed, child, Tail(names), SubOf(Head(names)))
         ELSE ScanParentsNoBreak(completed, child, Tail(names), entry)

\* for parent in all_params: ... hierarchy[child] = ...; break
RECURSIVE ScanParents(_, _, _, _)
ScanParents(completed, child, names, entry) ==
    IF names = << >> THEN entry
    ELSE IF Head(names) = child
         THEN ScanParents(completed, child, Tail(names), entry)
         ELSE IF Qualifies(completed, child, Head(names))
              THEN SubOf(Head(names))
              ELSE ScanParents(completed, child, Tail(names), entry)

get_hierarchy_map(completed, order) ==
    LET all_params == AllParamNames(completed, order)
        total_completed == Len(completed)
    IN [child \in Range(all_params) |->
          IF Cardinality(Presence(completed, child)) = total_completed
          THEN Global
          ELSE ScanParents(completed, child, all_params, Global)]

\* sorted(completed, key=lambda t: t.value, reverse=True): stable, so trials
\* of equal value keep their order in `completed`
RECURSIVE InsertByValueDesc(_, _)
InsertByValueDesc(s, t) ==
    IF s = << >> THEN <<t>>
    ELSE IF Head(s).value >= t.value
         THEN <<Head(s)>> \o InsertByValueDesc(Tail(s), t)
         ELSE <<t>> \o s

RECURSIVE SortByValueDescFrom(_, _)
SortByValueDescFrom(acc, rest) ==
    IF rest = << >> THEN acc
    ELSE SortByValueDescFrom(InsertByValueDesc(acc, Head(rest)), Tail(rest))

SortByValueReverse(completed) == SortByValueDescFrom(<< >>, completed)

\* the store after a script that sorted study.trials in place (a faulty variant)
StoreSortedInPlace(trs) == SortByValueReverse(trs)

\* the store after a script ran: every script works on its own lists
\* (a comprehension, sorted(), a slice) and never writes to the study
StoreAfter(trs) == trs

\* max(3, int(len(completed) * 0.25))
NEliteTrials(n) == Max(3, Int25(n))

\* the same with the fraction rounded instead of truncated (a faulty variant)
NTopParamsRounded(m) == Max(2, Round25(m))

\* the same without the floor of 2 (a faulty variant)
NTopParamsNoFloor(m) == Int25(m)

\* max(2, int(n_params * 0.25))
NTopParams(m) == Max(2, Int25(m))

EliteTrialsOf(completed) ==
    Slice(SortByValueReverse(completed), NEliteTrials(Len(completed)))

\* key=lambda x: (importance_scores.get(x, 0), x): tuple comparison
KeyLess(imp, a, b) ==
    \/ ImportanceGet(imp, a) < ImportanceGet(imp, b)
    \/ ImportanceGet(imp, a) = ImportanceGet(imp, b) /\ a < b

\* sorted(all_param_names, key=..., reverse=True); the keys are distinct
RECURSIVE SortParamsReverse(_, _)
SortParamsReverse(imp, S) ==
    IF S = {} THEN << >>
    ELSE LET m == CHOOSE x \in S : \A y \in S \ {x} : KeyLess(imp, y, x)
         IN <<m>> \o SortParamsReverse(imp, S \ {m})

\* the list without its `if p in t.params` filter (a faulty variant)
ValsUnfiltered(elite, p) == {Str(ParamGet(t, p)) : t \in Range(elite)}

\* vals = [str(t.params.get(p)) for t in elite_trials if p in t.params]
ValsPresent(elite, p) ==
    {Str(ParamGet(t, p)) : t \in {u \in Range(elite) : p \in DOMAIN u.params}}

\* if vals and len(set(vals)) == 1
StablePresent(elite, p) == Cardinality(ValsPresent(elite, p)) = 1

\* values_in_elite = [str(t.params.get(p)) for t in elite_trials]
ValsAll(elite, p) == {Str(ParamGet(t, p)) : t \in Range(elite)}

\* the check on the values themselves, not on their str() (a faulty variant)
StableAllRaw(elite, p) == Cardinality({ParamGet(t, p) : t \in Range(elite)}) = 1

\* if len(set(values_in_elite)) == 1
StableAll(elite, p) == Cardinality(ValsAll(elite, p)) = 1

\* the Support Status column of the improved table
SupportStatus(elite, p) ==
    IF ValsPresent(elite, p) = {} THEN "NOT IN ELITE"
    ELSE IF Cardinality(ValsPresent(elite, p)) = 1 THEN "STABLE" ELSE "VARYING"

\* the counting loop run over every name of the elite trials instead of
\* top_params_list (a faulty variant)
CountStableEveryName(elite, top) ==
    Cardinality({p \in UNION {DOMAIN t.params : t \in Range(elite)} :
                    StablePresent(elite, p)})

\* the counting loop over top_params_list (its entries are distinct)
CountStable(elite, top) ==
    Cardinality({p \in Range(top) : StablePresent(elite, p)})

\* the counting loop of study_analysis.py, run only with 3 or more elite trials
LegacyCountStable(elite, top) ==
    IF Len(elite) >= 3
    THEN Cardinality({p \in Range(top) : StableAll(elite, p)})
    ELSE 0

\* the same with a threshold of 0.67 (a faulty variant)
SignalStrict(count, total) == IF 100 * count >= 67 * total THEN "HIGH" ELSE "LOW"

\* 'HIGH' if (convergence_count / n_top_params) >= 0.66 else 'LOW'
Signal(count, total) == IF 100 * count >= 66 * total THEN "HIGH" ELSE "LOW"

Numbers(ts) == [i \in DOMAIN ts |-> ts[i].number]

----------------------------------------------------------------------------
(* The studies load_study can return, within the bounds.  Trial i of the   *)
(* sequence has number i - 1.                                              *)

I1 == <<"int", "1">>

I2 == <<"int", "2">>

S1 == <<"str", "1">>

\* name 1 is a categorical parameter whose choices 1 and "1" print alike,
\* the others are integer parameters
ValuesOf(p) == IF p = 1 THEN {I1, S1} ELSE {I1, I2}

\* every params dict over a subset of the names N
ParamDicts(N) ==
    UNION {{f \in [S -> {I1, I2, S1}] : \A p \in S : f[p] \in ValuesOf(p)} :
           S \in SUBSET N}

\* the dicts in which every present parameter has the value I1
PresenceDicts(N) == {[p \in S |-> I1] : S \in SUBSET N}

Studies(n, States, Values, Dicts) ==
    {[i \in 1..n |-> [number |-> i - 1, state |-> c[i].state,
                      value |-> c[i].value, params |-> c[i].params]] :
        c \in [1..n -> [state : States, value : Values, params : Dicts]]}

\* an evaluator result over the names N: distinct names, scores descending
ImportanceDicts(N) ==
    UNION {{imp \in [1..k -> [name : N, score : 0..MaxScore]] :
               /\ \A i, j \in 1..k : i # j => imp[i].name # imp[j].name
               /\ \A i \in 1..k : i < k => imp[i].score >= imp[i + 1].score} :
           k \in 0..Cardinality(N)}

\* the default evaluator scores the parameters present in every completed
\* trial; here every one of them gets the score 1
IntersectionImportance(completed) ==
    LET common == {p \in ParamNameSet(completed) :
                      \A t \in Range(completed) : p \in DOMAIN t.params}
    IN [i \in 1..Cardinality(common) |->
          [name |-> SortedNames(common)[i], score |-> 1]]

Reverse(s) == [i \in 1..Len(s) |-> s[Len(s) + 1 - i]]

\* the names of the completed trials, last name first
DescendingNames(trs) == Reverse(SortedNames(ParamNameSet(Completed(trs))))

RECURSIVE Permutations(_)
Permutations(S) ==
    IF S = {} THEN {<< >>}
    ELSE UNION {{<<x>> \o s : s \in Permutations(S \ {x})} : x \in S}

NoOutputs ==
    /\ volatility = [num |-> 0, den |-> 1]
    /\ dynamic_target = 0
    /\ trials_needed = 0
    /\ exported = << >>
    /\ error = "none"
    /\ hierarchy = << >>
    /\ elite_trials = << >>
    /\ sorted_params = << >>
    /\ top_params_list = << >>
    /\ n_params = 0
    /\ n_top_params = 0
    /\ n_elite_trials = 0
    /\ convergence_count = 0
    /\ status = "NONE"
    /\ support = << >>

\* run_timestamp values: '' and 'now' are special, the others are times
EmptyTimestamp == 0

NowTimestamp == -1

\* a timestamp handed to run_job by a caller
GivenTimestamp == 7

\* gpu.isdigit() for the parts used here
IsDigit(part) == part \in {"0", "1"}

\* gpu_ids.split(','): 'all', '0', '0,', 'x,0', ...
GpuIdLists == UNION {[1..k -> {"all", "0", "", "x"}] : k \in 1..MaxGpuParts}

\* gpu_ids == 'all'
IsAll(gpu_ids) == gpu_ids = <<"all">>

\* args.gpu_ids == 'all' or all(gpu.isdigit() for gpu in args.gpu_ids.split(','))
GpuIdsValid(gpu_ids) ==
    IsAll(gpu_ids) \/ \A k \in DOMAIN gpu_ids : IsDigit(gpu_ids[k])

\* the three checks of main without the last one (a faulty variant)
ArgsValidNoFileCheck(a) == a.num_trials >= 1 /\ GpuIdsValid(a.gpu_ids)

\* the three checks of main: none of them prints its error and returns
ArgsValid(a) ==
    /\ a.num_trials >= 1
    /\ GpuIdsValid(a.gpu_ids)
    /\ a.config_exists

\* run_job without its first check (a faulty variant)
RunJobOutcomeUnchecked(docker_image, gpu_ids, timestamp, t) ==
    IF IsAll(gpu_ids) /\ ~t.nvidia_smi THEN "FileNotFoundError"
    ELSE IF docker_image # ""
         THEN IF t.docker THEN "docker" ELSE "FileNotFoundError"
         ELSE IF t.conda THEN "conda" ELSE "EnvironmentError"

\* run_job up to the start of the job process: the exception it raises, or
\* the tool it starts the job with
RunJobOutcome(docker_image, gpu_ids, timestamp, t) ==
    IF timestamp = EmptyTimestamp THEN "ValueError"
    ELSE IF IsAll(gpu_ids) /\ ~t.nvidia_smi THEN "FileNotFoundError"
    ELSE IF docker_image # ""
         THEN IF t.docker THEN "docker" ELSE "FileNotFoundError"
         ELSE IF t.conda THEN "conda" ELSE "EnvironmentError"

\* the machines the launcher runs on
ToolSets == [docker : BOOLEAN, conda : BOOLEAN, nvidia_smi : BOOLEAN]

NoArgs ==
    [num_trials |-> 0, gpu_ids |-> <<"all">>, config_exists |-> FALSE,
     docker_image |-> "", run_timestamp |-> EmptyTimestamp]

NotStarted ==
    /\ trial_num = 0
    /\ run_timestamp = EmptyTimestamp
    /\ clock = 1
    /\ jobs = << >>
    /\ launch_error = "none"

\* the launcher is not run
LauncherOff ==
    /\ args = NoArgs
    /\ tools = [docker |-> FALSE, conda |-> FALSE, nvidia_smi |-> FALSE]
    /\ called = "none"
    /\ lpc = "off"
    /\ NotStarted

\* no study is analysed, or an empty one
EmptyStudy ==
    /\ trials = << >>
    /\ direction = "MAXIMIZE"
    /\ importance = << >>
    /\ evaluator_ok = TRUE
    /\ iter_order = << >>
    /\ pc = "loaded"
    /\ NoOutputs

\* the launcher on a machine with Conda only: main with one trial on GPU 0,
\* or run_job called with run_timestamp 'now'
InitLaunchOne ==
    /\ EmptyStudy
    /\ tools = [docker |-> FALSE, conda |-> TRUE, nvidia_smi |-> TRUE]
    /\ called \in {"main", "run_job"}
    /\ lpc = called
    /\ args = [num_trials |-> 1, gpu_ids |-> <<"0">>, config_exists |-> TRUE,
               docker_image |-> "", run_timestamp |-> NowTimestamp]
    /\ NotStarted

\* the launcher with any arguments on any machine; --docker_image exists
\* only where Docker is available
InitLaunch ==
    /\ EmptyStudy
    /\ tools \in ToolSets
    /\ called \in {"main", "run_job"}
    /\ lpc = called
    /\ \/ /\ called = "main"
          /\ args \in [num_trials : -1..MaxTrials, gpu_ids : GpuIdLists,
                       config_exists : BOOLEAN, docker_image : {"", "image"},
                       run_timestamp : {EmptyTimestamp}]
          /\ args.docker_image # "" => tools.docker
       \/ /\ called = "run_job"
          /\ args \in [num_trials : {0}, gpu_ids : {<<"all">>, <<"0">>},
                       config_exists : {TRUE}, docker_image : {"", "image"},
                       run_timestamp : {EmptyTimestamp, NowTimestamp,
                                        GivenTimestamp}]
    /\ NotStarted

\* presence patterns: completed trials, each with any subset of the names
InitHier ==
    /\ \E n \in 0..HierTrials :
         trials \in Studies(n, {"COMPLETE"}, {1}, PresenceDicts(1..MaxNames))
    /\ direction = "MAXIMIZE"
    /\ importance = << >>
    /\ evaluator_ok = TRUE
    /\ iter_order = DescendingNames(trials)
    /\ pc = "loaded"
    /\ NoOutputs
    /\ LauncherOff

\* objective values and directions
InitElite ==
    /\ \E n \in 0..EliteTrials :
         trials \in Studies(n, {"COMPLETE", "FAILED"}, 1..MaxValue,
                            {[p \in {1} |-> I1]})
    /\ direction \in {"MAXIMIZE", "MINIMIZE"}
    /\ importance = << >>
    /\ evaluator_ok = TRUE
    /\ iter_order = DescendingNames(trials)
    /\ pc = "loaded"
    /\ NoOutputs
    /\ LauncherOff

\* one completed trial with any subset of the names, any evaluator result
InitRank ==
    /\ trials \in Studies(1, {"COMPLETE"}, {1}, PresenceDicts(1..MaxNames))
    /\ direction = "MAXIMIZE"
    /\ importance \in ImportanceDicts(DOMAIN trials[1].params)
    /\ evaluator_ok = TRUE
    /\ iter_order = DescendingNames(trials)
    /\ pc = "loaded"
    /\ NoOutputs
    /\ LauncherOff

\* parameter values of two names over up to ConvTrials completed trials;
\* odd trials score 2 and even trials 1; the evaluator scores every name 1
InitConv ==
    /\ \E n \in 1..ConvTrials :
         trials \in {[i \in 1..n |-> [number |-> i - 1, state |-> "COMPLETE",
                                      value |-> 1 + (i % 2), params |-> d[i]]] :
                        d \in [1..n -> ParamDicts({1, 2})]}
    /\ direction = "MAXIMIZE"
    /\ importance = [i \in 1..Cardinality(ParamNameSet(trials)) |->
                       [name |-> SortedNames(ParamNameSet(trials))[i],
                        score |-> 1]]
    /\ evaluator_ok = TRUE
    /\ iter_order = DescendingNames(trials)
    /\ pc = "loaded"
    /\ NoOutputs
    /\ LauncherOff

\* a large study: n completed trials with values base + 1..base + n, each
\* with the same m parameters; the k highest names alternate between two
\* values from trial to trial, the others are constant; the evaluator scores
\* every name 1
LargeStudy(n, m, k, base) ==
    [i \in 1..n |->
       [number |-> i - 1, state |-> "COMPLETE", value |-> base + i,
        params |-> [p \in 1..m |-> IF p > m - k /\ i % 2 = 0 THEN I2 ELSE I1]]]

\* the studies with constant parameters also come with the values shifted by
\* SteadyBase, which makes the objective steady (a low volatility)
InitPolicy ==
    /\ \E n \in 1..MaxCompleted, m \in 0..MaxParams :
         \E k \in 0..Min(m, 3), base \in {0, SteadyBase} :
            /\ base = 0 \/ k = 0
            /\ trials = LargeStudy(n, m, k, base)
            /\ importance = [i \in 1..m |-> [name |-> m + 1 - i, score |-> 1]]
    /\ direction = "MAXIMIZE"
    /\ evaluator_ok = TRUE
    /\ iter_order = DescendingNames(trials)
    /\ pc = "loaded"
    /\ NoOutputs
    /\ LauncherOff

\* the trial store as a script finds it: COMPLETE trials with a value of 0
\* or 2, FAILED trials without a value, any subset of two names per trial;
\* the evaluator either fails or scores the names every completed trial has
InitStore ==
    /\ \E n \in 0..StoreTrials :
         trials \in {s \in Studies(n, {"COMPLETE", "FAILED"}, {NoneValue, 0, 2},
                                   PresenceDicts({1, 2})) :
                        \A i \in 1..n :
                           (s[i].state = "COMPLETE") <=> (s[i].value # NoneValue)}
    /\ direction = "MAXIMIZE"
    /\ evaluator_ok \in BOOLEAN
    /\ importance = IF evaluator_ok THEN IntersectionImportance(Completed(trials))
                    ELSE << >>
    /\ iter_order = DescendingNames(trials)
    /\ pc = "loaded"
    /\ NoOutputs
    /\ LauncherOff

\* studies in which a COMPLETE trial may have no value; at least one
\* completed trial has one, so study.best_value is defined
InitNull ==
    /\ \E n \in 1..NullTrials :
         trials \in {s \in Studies(n, {"COMPLETE"}, {NoneValue, 1, 2},
                                   PresenceDicts({1})) :
                        \E i \in 1..n : s[i].value # NoneValue}
    /\ direction = "MAXIMIZE"
    /\ evaluator_ok = TRUE
    /\ importance = IntersectionImportance(Completed(trials))
    /\ iter_order = DescendingNames(trials)
    /\ pc = "loaded"
    /\ NoOutputs
    /\ LauncherOff

\* presence patterns with every iteration order of the name set
InitOrder ==
    /\ \E n \in 0..OrderTrials :
         trials \in {[i \in 1..n |-> [number |-> i - 1, state |-> "COMPLETE",
                                      value |-> 1 + (i % 2), params |-> d[i]]] :
                        d \in [1..n -> PresenceDicts(1..MaxNames)]}
    /\ direction = "MAXIMIZE"
    /\ evaluator_ok = TRUE
    /\ importance = IntersectionImportance(Completed(trials))
    /\ iter_order \in Permutations(ParamNameSet(Completed(trials)))
    /\ pc = "loaded"
    /\ NoOutputs
    /\ LauncherOff

----------------------------------------------------------------------------
(* A script that ends with an uncaught exception reports nothing *)

Raise(e) ==
    /\ pc' = "raised"
    /\ error' = e
    /\ UNCHANGED results

(* improved_study_analysis.main: everything it computes before its report *)

ImprovedResult(completed, imp, order) ==
    LET all_param_names == AllParamNames(completed, order)
        vol == ImprovedVolatility(CompletedValues(completed))
        target == Len(all_param_names) * Multiplier(vol)
        elite == EliteTrialsOf(completed)
        ranked == SortParamsReverse(imp, Range(all_param_names))
        ntop == NTopParams(Len(all_param_names))
        top == Slice(ranked, ntop)
        count == CountStable(elite, top)
    IN [hierarchy |-> get_hierarchy_map(completed, order),
        volatility |-> vol,
        n_params |-> Len(all_param_names),
        dynamic_target |-> target,
        trials_needed |-> Remaining(target, Len(completed)),
        n_elite_trials |-> NEliteTrials(Len(completed)),
        elite_trials |-> Numbers(elite),
        sorted_params |-> ranked,
        n_top_params |-> ntop,
        top_params_list |-> top,
        convergence_count |-> count,
        status |-> Signal(count, ntop),
        support |-> [p \in Range(ranked) |-> SupportStatus(elite, p)]]

ImprovedMain ==
    /\ pc = "loaded"
    /\ LET completed == Completed(trials)
       IN IF completed = << >>
          THEN /\ pc' = "returned"
               /\ UNCHANGED outputs
          ELSE IF ~evaluator_ok
          THEN Raise("EvaluatorError")
          ELSE IF SortRaises(completed)
          THEN Raise("TypeError")
          ELSE \E r \in {ImprovedResult(completed, importance, iter_order)} :
                  /\ pc' = "improved"
                  /\ hierarchy' = r.hierarchy
                  /\ volatility' = r.volatility
                  /\ n_params' = r.n_params
                  /\ dynamic_target' = r.dynamic_target
                  /\ trials_needed' = r.trials_needed
                  /\ n_elite_trials' = r.n_elite_trials
                  /\ elite_trials' = r.elite_trials
                  /\ sorted_params' = r.sorted_params
                  /\ n_top_params' = r.n_top_params
                  /\ top_params_list' = r.top_params_list
                  /\ convergence_count' = r.convergence_count
                  /\ status' = r.status
                  /\ support' = r.support
                  /\ UNCHANGED <<exported, error>>
    /\ trials' = StoreAfter(trials)
    /\ UNCHANGED <<environment, launcher>>

(* improved_study_driver_analysis.main: the hierarchy column of its table; *)
(* np.mean of a group of values raises when one of them is None            *)

DriverMeanRaises(completed, imp) ==
    \E p \in Range(ImportanceKeys(imp)) :
       \E t \in Range(completed) : p \in DOMAIN t.params /\ t.value = NoneValue

DriverMain ==
    /\ pc = "loaded"
    /\ LET completed == Completed(trials)
       IN IF completed = << >>
          THEN /\ pc' = "returned"
               /\ UNCHANGED outputs
          ELSE IF ~evaluator_ok
          THEN Raise("EvaluatorError")
          ELSE IF DriverMeanRaises(completed, importance)
          THEN Raise("TypeError")
          ELSE /\ pc' = "driver"
               /\ hierarchy' = get_hierarchy_map(completed, iter_order)
               /\ UNCHANGED <<elite_trials, sorted_params, top_params_list,
                              n_params, n_top_params, n_elite_trials,
                              convergence_count, status, support, volatility,
                              dynamic_target, trials_needed, exported, error>>
    /\ trials' = StoreAfter(trials)
    /\ UNCHANGED <<environment, launcher>>

(* study_analysis.main: study.best_value raises when no trial is complete *)

\* len(study.trials[0].params)
LegacyNParams(trs) == Cardinality(DOMAIN trs[1].params)

LegacyMain ==
    /\ pc = "loaded"
    /\ LET completed == Completed(trials)
       IN IF completed = << >>
          THEN Raise("ValueError")
          ELSE IF ~evaluator_ok
          THEN Raise("EvaluatorError")
          ELSE IF SortRaises(completed)
          THEN Raise("TypeError")
          ELSE LET np == LegacyNParams(trials)
                   vol == LegacyVolatility(CompletedValues(completed))
                   target == np * Multiplier(vol)
                   ntop == NTopParams(np)
                   top == Slice(ImportanceKeys(importance), ntop)
                   elite == EliteTrialsOf(completed)
                   count == LegacyCountStable(elite, top)
               IN /\ pc' = "legacy"
                  /\ n_params' = np
                  /\ volatility' = vol
                  /\ dynamic_target' = target
                  /\ trials_needed' = Remaining(target, Len(completed))
                  /\ n_top_params' = ntop
                  /\ top_params_list' = top
                  /\ sorted_params' = ImportanceKeys(importance)
                  /\ n_elite_trials' = NEliteTrials(Len(completed))
                  /\ elite_trials' = Numbers(elite)
                  /\ convergence_count' = count
                  /\ status' = Signal(count, ntop)
                  /\ support' = [p \in Range(ImportanceKeys(importance)) |->
                                   IF StableAll(elite, p) THEN "STABLE"
                                   ELSE "VARYING"]
                  /\ UNCHANGED <<hierarchy, exported, error>>
    /\ trials' = StoreAfter(trials)
    /\ UNCHANGED <<environment, launcher>>

(* study_trial_analysis.main: study.best_trial raises when no trial is     *)
(* complete; a failure of the evaluator is caught and printed, and the     *)
(* script goes on to its robustness table and its plots                    *)

\* the trials study.best_trial can return
BestTrials(completed, dir) ==
    {t \in Range(completed) :
        \A u \in Range(completed) :
           IF dir = "MINIMIZE" THEN t.value <= u.value ELSE t.value >= u.value}

\* the files written before the export block ends or raises
ExportedPlots(ok, best_trial) ==
    <<"convergence.html", "parameter_slices.html", "multidim_paths.html">>
    \o (IF ok THEN <<"param_importance.html">> ELSE << >>)
    \o (IF ok /\ Cardinality(DOMAIN best_trial.params) >= 2
        THEN <<"top_param_interactions.html">> ELSE << >>)

TrialAnalysisMain ==
    /\ pc = "loaded"
    /\ LET completed_trials == Completed(trials)
       IN IF completed_trials = << >>
          THEN Raise("ValueError")
          ELSE IF SortRaises(completed_trials)
          THEN Raise("TypeError")
          ELSE \E best_trial \in BestTrials(completed_trials, direction) :
                 /\ pc' = "trial_analysis"
                 /\ sorted_params' = IF evaluator_ok
                                     THEN ImportanceKeys(importance) ELSE << >>
                 /\ exported' = ExportedPlots(evaluator_ok, best_trial)
                 /\ UNCHANGED <<hierarchy, elite_trials, top_params_list,
                                n_params, n_top_params, n_elite_trials,
                                convergence_count, status, support, volatility,
                                dynamic_target, trials_needed, error>>
    /\ trials' = StoreAfter(trials)
    /\ UNCHANGED <<environment, launcher>>

----------------------------------------------------------------------------
(* run_parallel_optim_trials.py *)

\* the loop of main: one timestamp, one sleep, one run_trial per trial
LauncherMain ==
    /\ lpc = "main"
    /\ IF ArgsValid(args)
       THEN /\ lpc' = "loop"
            /\ trial_num' = 1
       ELSE /\ lpc' = "returned"
            /\ UNCHANGED trial_num
    /\ UNCHANGED <<args, tools, called, run_timestamp, clock, jobs, launch_error>>
    /\ UNCHANGED analysis

\* for i in range(1, args.num_trials + 1): run_timestamp = ...; time.sleep(5)
LoopStep ==
    /\ lpc = "loop"
    /\ IF trial_num <= args.num_trials
       THEN /\ run_timestamp' = clock
            /\ clock' = clock + 1
            /\ lpc' = "trial"
       ELSE /\ lpc' = "done"
            /\ UNCHANGED <<run_timestamp, clock>>
    /\ UNCHANGED <<args, tools, called, trial_num, jobs, launch_error>>
    /\ UNCHANGED analysis

\* run_job up to subprocess.run: the job process starts, or run_job raises
StartJob(docker_image, gpu_ids, timestamp) ==
    \E outcome \in {RunJobOutcome(docker_image, gpu_ids, timestamp, tools)} :
       IF outcome \in {"docker", "conda"}
       THEN /\ jobs' = Append(jobs, [trial |-> trial_num,
                                     timestamp |-> IF timestamp = NowTimestamp
                                                   THEN clock ELSE timestamp,
                                     via |-> outcome,
                                     ended |-> FALSE])
            /\ lpc' = "job"
            /\ UNCHANGED launch_error
       ELSE /\ lpc' = "raised"
            /\ launch_error' = outcome
            /\ UNCHANGED jobs

\* run_trial, called with args.docker_image only when Docker is available
RunTrial ==
    /\ lpc = "trial"
    /\ LET docker_image == IF tools.docker THEN args.docker_image ELSE ""
       IN IF docker_image # "" /\ tools.docker
          THEN /\ StartJob(docker_image, args.gpu_ids, run_timestamp)
               /\ UNCHANGED trial_num
          ELSE IF tools.conda
          THEN /\ StartJob("", args.gpu_ids, run_timestamp)
               /\ UNCHANGED trial_num
          ELSE /\ lpc' = "loop"
               /\ trial_num' = trial_num + 1
               /\ UNCHANGED <<jobs, launch_error>>
    /\ UNCHANGED <<args, tools, called, run_timestamp, clock>>
    /\ UNCHANGED analysis

\* subprocess.run returns when the job process has ended
JobEnds ==
    /\ lpc = "job"
    /\ jobs' = [jobs EXCEPT ![Len(jobs)].ended = TRUE]
    /\ IF called = "main"
       THEN /\ lpc' = "loop"
            /\ trial_num' = trial_num + 1
       ELSE /\ lpc' = "done"
            /\ UNCHANGED trial_num
    /\ UNCHANGED <<args, tools, called, run_timestamp, clock, launch_error>>
    /\ UNCHANGED analysis

\* run_job called on its own, with any run_timestamp
RunJobCall ==
    /\ lpc = "run_job"
    /\ StartJob(args.docker_image, args.gpu_ids, args.run_timestamp)
    /\ UNCHANGED <<args, tools, called, trial_num, run_timestamp, clock>>
    /\ UNCHANGED analysis

Next ==
    \/ ImprovedMain
    \/ DriverMain
    \/ LegacyMain
    \/ TrialAnalysisMain
    \/ LauncherMain
    \/ LoopStep
    \/ RunTrial
    \/ JobEnds
    \/ RunJobCall

Init == InitHier \/ InitLaunchOne

Spec == Init /\ [][Next]_vars

SpecHier == (InitHier \/ InitLaunchOne) /\ [][Next]_vars

SpecElite == (InitElite \/ InitLaunchOne) /\ [][Next]_vars

SpecRank == (InitRank \/ InitLaunchOne) /\ [][Next]_vars

SpecConv == (InitConv \/ InitLaunchOne) /\ [][Next]_vars

SpecPolicy == (InitPolicy \/ InitLaunchOne) /\ [][Next]_vars

SpecStore == (InitStore \/ InitLaunchOne) /\ [][Next]_vars

SpecNull == (InitNull \/ InitLaunchOne) /\ [][Next]_vars

SpecOrder == (InitOrder \/ InitLaunchOne) /\ [][Next]_vars

SpecLaunch == InitLaunch /\ [][Next]_vars

----------------------------------------------------------------------------
(* What the properties below read off the loaded study *)

CompletedIdx == {i \in DOMAIN trials : trials[i].state = "COMPLETE"}

CompletedIds == {i - 1 : i \in CompletedIdx}

NCompleted == Cardinality(CompletedIdx)

NamesNow == UNION {DOMAIN trials[i].params : i \in CompletedIdx}

Mask(p) == {i - 1 : i \in {j \in CompletedIdx : p \in DOMAIN trials[j].params}}

HierDone == pc \in {"improved", "driver"}

Analysed == pc \in {"improved", "legacy"}

\* the qualifying parents of a child
Parents(child) ==
    {p \in NamesNow \ {child} :
        Mask(child) \subseteq Mask(p) /\ Cardinality(Mask(p)) > Cardinality(Mask(child))}

Least(S) == CHOOSE x \in S : \A y \in S : x <= y

TrialOf(num) == trials[num + 1]

EliteSet == {TrialOf(elite_trials[i]) : i \in DOMAIN elite_trials}

\* the stringified values a parameter takes in the elite trials that have it
EliteTexts(p) == {t.params[p][2] : t \in {u \in EliteSet : p \in DOMAIN u.params}}

Score(p) ==
    IF \E i \in DOMAIN importance : importance[i].name = p
    THEN importance[CHOOSE i \in DOMAIN importance : importance[i].name = p].score
    ELSE 0

----------------------------------------------------------------------------
(* C1: a hyperparameter whose presence mask is a proper subset of the      *)
(* completed-trial ids and that has a qualifying parent (child mask inside *)
(* the parent's mask, parent mask strictly larger) is reported as a        *)
(* sub-parameter of the lexicographically first qualifying parent; trials  *)
(* {T0:{A,B}, T1:{A}, T2:{A}} give B -> SubOf(A) and A -> Global.          *)
C1_FirstLexParent ==
    HierDone =>
      /\ \A child \in NamesNow :
           (Mask(child) # CompletedIds /\ Parents(child) # {})
             => hierarchy[child] = [kind |-> "SubOf", parent |-> Least(Parents(child))]
      /\ ( /\ Len(trials) = 3
           /\ DOMAIN trials[1].params = {1, 2}
           /\ DOMAIN trials[2].params = {1}
           /\ DOMAIN trials[3].params = {1} )
         => /\ hierarchy[2] = [kind |-> "SubOf", parent |-> 1]
            /\ hierarchy[1] = [kind |-> "Global", parent |-> 0]

\* a child with two qualifying parents, the reported one being the first by
\* name although the other has the smaller mask
C1_Witness ==
    /\ HierDone
    /\ \E child \in NamesNow : \E p, q \in Parents(child) :
         /\ p < q
         /\ Cardinality(Mask(q)) < Cardinality(Mask(p))
         /\ hierarchy[child] = [kind |-> "SubOf", parent |-> p]

(* C2: a hyperparameter is labeled Global exactly when it is present in    *)
(* every completed trial; one missing from a completed trial and without a *)
(* qualifying parent is never labeled Global.                              *)
C2_GlobalIffEverywhere ==
    HierDone =>
      \A p \in NamesNow : (hierarchy[p].kind = "Global") <=> (Mask(p) = CompletedIds)

(* C3: the elite trials are the completed trials ordered optimal-first     *)
(* under the study's direction (MAXIMIZE: value descending, MINIMIZE:      *)
(* value ascending), so no completed trial left out of the elite set is    *)
(* strictly better than one in it.                                         *)
Better(a, b) == IF direction = "MAXIMIZE" THEN a > b ELSE a < b

C3_EliteOptimalFirst ==
    Analysed =>
      /\ \A i, j \in DOMAIN elite_trials :
           i < j => ~Better(TrialOf(elite_trials[j]).value, TrialOf(elite_trials[i]).value)
      /\ \A out \in CompletedIds \ Range(elite_trials) :
           \A in \in Range(elite_trials) : ~Better(TrialOf(out).value, TrialOf(in).value)

(* C4 as stated: the elite set has min(n, max(3, round(0.25 n))) members,  *)
(* 0.25 n rounded to the nearest integer (4 for n = 15).                   *)
C4_EliteSizeRounded ==
    Analysed => Len(elite_trials) = Min(NCompleted, Max(3, Round25(NCompleted)))

(* C4 amended: for n >= 1 completed trials the elite set has               *)
(* min(n, max(3, floor(0.25 n))) members, 0.25 n truncated: 3 for n = 5,   *)
(* 10 for n = 40 and 3 for n = 15.                                         *)
C4_EliteSizeTruncated ==
    Analysed =>
      /\ Len(elite_trials) = Min(NCompleted, Max(3, NCompleted \div 4))
      /\ NCompleted = 5 => Len(elite_trials) = 3
      /\ NCompleted = 40 => Len(elite_trials) = 10
      /\ NCompleted = 15 => Len(elite_trials) = 3

C4_Witness == pc = "improved" /\ NCompleted = 15 /\ Len(elite_trials) = 3

(* C5: hyperparameters are ranked by importance descending and, among      *)
(* equal importance, by name ascending; the elite parameters are a prefix  *)
(* of the ranking.                                                         *)
C5_RankNameAscending ==
    pc = "improved" =>
      /\ \A i, j \in DOMAIN sorted_params :
           i < j => \/ Score(sorted_params[i]) > Score(sorted_params[j])
                    \/ /\ Score(sorted_params[i]) = Score(sorted_params[j])
                       /\ sorted_params[i] < sorted_params[j]
      /\ top_params_list = SubSeq(sorted_params, 1, Len(top_params_list))

(* C6 as stated: the number of elite parameters is max(2, round(0.25 m))   *)
(* cut to the m names of the completed trials, 0.25 m rounded to nearest.  *)
C6_TopSizeRounded ==
    pc = "improved" =>
      Len(top_params_list) = Min(Cardinality(NamesNow), Max(2, Round25(Cardinality(NamesNow))))

(* C6 amended: in improved_study_analysis the number of elite parameters   *)
(* is min(m, max(2, floor(0.25 m))), 0.25 m truncated: 2 for m = 10 and    *)
(* for m = 11, 3 for m = 12.                                               *)
C6_TopSizeTruncated ==
    pc = "improved" =>
      /\ Len(top_params_list) = Min(Cardinality(NamesNow), Max(2, Cardinality(NamesNow) \div 4))
      /\ Cardinality(NamesNow) \in {10, 11} => Len(top_params_list) = 2
      /\ Cardinality(NamesNow) = 12 => Len(top_params_list) = 3

C6_Witness == pc = "improved" /\ Cardinality(NamesNow) = 11 /\ Len(top_params_list) = 2

C9_HighIffTwoThirds ==
    Analysed =>
      /\ status \in {"HIGH", "LOW"}
      /\ status = "HIGH" <=> 100 * convergence_count >= 66 * n_top_params
      /\ (convergence_count = 2 /\ n_top_params = 3) => status = "HIGH"
      /\ (convergence_count = 1 /\ n_top_params = 2) => status = "LOW"

C9_Witness ==
    pc = "improved" /\ convergence_count = 2 /\ n_top_params = 3 /\ status = "HIGH"

(* C10: whenever every elite trial has the same value for every elite      *)
(* parameter, the ratio is 1.0 and the status is HIGH, also for a study    *)
(* with a single hyperparameter.                                           *)
C10_UnanimousIsHigh ==
    ( /\ pc = "improved"
      /\ top_params_list # << >>
      /\ \A p \in Range(top_params_list) :
           /\ \A t \in EliteSet : p \in DOMAIN t.params
           /\ Cardinality(EliteTexts(p)) = 1 )
    => convergence_count = n_top_params /\ status = "HIGH"

----------------------------------------------------------------------------
(* The completed values the statistics are taken over *)

ValuesNow == CompletedValues(Completed(trials))

\* volatility rounds to 0.03: 0.0283 <= std / mean <= 0.0316
RoundsTo3Percent(v) == 1000 * v.num <= v.den /\ 1250 * v.num >= v.den

\* C11: when the mean of the completed-trial values is not greater than 0,
\* volatility is the sentinel 1.0, the multiplier is 10 and the target is
\* 10 x n_params.
C11_NonPositiveMeanIsMaximal ==
    (Analysed /\ Sum(ValuesNow) <= 0) =>
        /\ volatility = [num |-> 1, den |-> 1]
        /\ dynamic_target = 10 * n_params

\* C12: target = n_params x multiplier, the multiplier being 10 when
\* volatility > 0.1 and 5 otherwise; remaining = max(0, target - completed):
\* never negative, 0 once the completed count reaches the target, the
\* difference before; 12 parameters at a volatility of at most 0.1 with 40
\* completed trials give target 60 and remaining 20.
C12_BudgetArithmetic ==
    Analysed =>
        /\ 100 * volatility.num > volatility.den => dynamic_target = n_params * 10
        /\ 100 * volatility.num <= volatility.den => dynamic_target = n_params * 5
        /\ trials_needed >= 0
        /\ NCompleted >= dynamic_target => trials_needed = 0
        /\ NCompleted < dynamic_target =>
              trials_needed = dynamic_target - NCompleted
        /\ (n_params = 12 /\ NCompleted = 40
              /\ 100 * volatility.num <= volatility.den) =>
              (dynamic_target = 60 /\ trials_needed = 20)

\* the example of the specification: 12 parameters, volatility 0.03, 40
\* completed trials
C12_Witness ==
    /\ pc = "improved"
    /\ n_params = 12
    /\ NCompleted = 40
    /\ RoundsTo3Percent(volatility)
    /\ dynamic_target = 60
    /\ trials_needed = 20

\* a study that already has more completed trials than its target
C12_WitnessBudgetSpent ==
    /\ Analysed
    /\ n_params > 0
    /\ NCompleted > dynamic_target
    /\ trials_needed = 0

----------------------------------------------------------------------------
(* Error handling *)

Finished == pc # "loaded"

NullNow == \E i \in CompletedIdx : trials[i].value = NoneValue

\* the store with every trial that is not COMPLETE taken out
CompleteOnly == Completed(trials)

\* C13: with zero completed trials no script raises; the hierarchy is the
\* empty mapping and the analysis ends without an exception.
C13_NoCompletedNoRaise ==
    (Finished /\ NCompleted = 0) =>
        /\ pc = "returned"
        /\ error = "none"
        /\ hierarchy = << >>

\* C14: a completed trial whose value is null makes the analysis stop with
\* an invalid-input error.
C14_NullValueRejected ==
    (Finished /\ NullNow) =>
        /\ pc = "raised"
        /\ error = "InvalidTrialError"

\* C15: when the importance evaluator fails the failure reaches the caller,
\* and no ranking or export step has run.
C15_EvaluatorFailurePropagates ==
    (Finished /\ NCompleted > 0 /\ ~evaluator_ok) =>
        /\ pc = "raised"
        /\ error = "EvaluatorError"
        /\ sorted_params = << >>
        /\ exported = << >>

\* C16: the ranking contains every hyperparameter name found in completed
\* trials exactly once, whether or not the evaluator scored it.
C16_RankingHasEveryName ==
    Analysed =>
        /\ Range(sorted_params) = NamesNow
        /\ Len(sorted_params) = Cardinality(NamesNow)

\* C17: trials that are not COMPLETE do not influence the analysis: the
\* parameter count and the budget are what the same script reports on the
\* store without them.
C17_OnlyCompleteTrialsCount ==
    /\ pc = "improved" =>
          /\ n_params = Len(AllParamNames(Completed(CompleteOnly), iter_order))
          /\ dynamic_target = n_params * Multiplier(volatility)
    /\ pc = "legacy" =>
          /\ n_params = LegacyNParams(CompleteOnly)
          /\ dynamic_target = LegacyNParams(CompleteOnly) * Multiplier(volatility)

----------------------------------------------------------------------------
(* Determinism, frame and shape of the results *)

\* what improved_study_analysis.main reports when sets iterate in name order
InNameOrder ==
    ImprovedResult(Completed(trials), importance, SortedNames(NamesNow))

Ascending(s) == \A i, j \in DOMAIN s : i < j => s[i] < s[j]

\* C18: no output depends on the iteration order of the name set: whatever
\* the order, the hierarchy, the elite trials, the ranking, the convergence
\* result and the budget are those of a run that iterates in name order.
C18_OrderIndependent ==
    /\ pc = "improved" =>
          \A r \in {InNameOrder} :
             /\ hierarchy = r.hierarchy
             /\ elite_trials = r.elite_trials
             /\ sorted_params = r.sorted_params
             /\ top_params_list = r.top_params_list
             /\ convergence_count = r.convergence_count
             /\ status = r.status
             /\ n_params = r.n_params
             /\ dynamic_target = r.dynamic_target
             /\ trials_needed = r.trials_needed
    /\ pc = "driver" =>
          hierarchy = get_hierarchy_map(Completed(trials), SortedNames(NamesNow))

\* a run whose name set iterated out of name order, over a study in which
\* some parameter has two qualifying parents
C18_Witness ==
    /\ pc = "improved"
    /\ ~Ascending(iter_order)
    /\ \E child \in NamesNow : Cardinality(Parents(child)) >= 2

\* C19: no analysis step changes the trial store: the sequence of trials,
\* their order, params and values are after every step what they were before.
C19_StoreUntouched == [][trials' = trials]_vars

\* the elite selection reordered its own list of trials, the store is still
\* in trial-number order
C19_Witness ==
    /\ pc = "improved"
    /\ Len(elite_trials) >= 2
    /\ elite_trials[1] > elite_trials[2]
    /\ \A i \in DOMAIN trials : trials[i].number = i - 1

HasParent(p) == hierarchy[p].kind = "SubOf"

ParentOf(p) == hierarchy[p].parent

\* following parent links from p ends within `fuel` steps
RECURSIVE ChainEnds(_, _)
ChainEnds(p, fuel) ==
    IF ~HasParent(p) THEN TRUE
    ELSE IF fuel = 0 THEN FALSE
         ELSE ChainEnds(ParentOf(p), fuel - 1)

\* C20: the hierarchy is acyclic: no hyperparameter is its own parent, a
\* parent's presence mask strictly contains its child's, and parent links
\* from any hyperparameter end at one without a parent.
C20_HierarchyAcyclic ==
    HierDone =>
        \A child \in DOMAIN hierarchy :
            /\ HasParent(child) =>
                  /\ ParentOf(child) # child
                  /\ ParentOf(child) \in DOMAIN hierarchy
                  /\ Mask(child) \subseteq Mask(ParentOf(child))
                  /\ Mask(child) # Mask(ParentOf(child))
            /\ ChainEnds(child, Cardinality(DOMAIN hierarchy))

\* a chain of two parent links
C20_Witness ==
    /\ HierDone
    /\ \E child \in DOMAIN hierarchy :
          HasParent(child) /\ HasParent(ParentOf(child))

----------------------------------------------------------------------------
(* The convergence ratio and the two stability checks *)

\* the elite trials in the order of elite_trials
EliteSeq == [i \in DOMAIN elite_trials |-> TrialOf(elite_trials[i])]

InEveryElite(p) == \A t \in EliteSet : p \in DOMAIN t.params

\* C21: 0 <= convergence_count <= number of elite parameters checked <=
\* n_top_params, and n_top_params is positive, so the reported ratio
\* convergence_count / n_top_params lies in [0, 1].
C21_RatioInUnitInterval ==
    Analysed =>
        /\ 0 <= convergence_count
        /\ convergence_count <= Len(top_params_list)
        /\ Len(top_params_list) <= n_top_params
        /\ n_top_params > 0
        /\ convergence_count <= n_top_params

\* some, not all, of three checked parameters are stable
C21_Witness ==
    /\ pc = "improved"
    /\ n_top_params = 3
    /\ Len(top_params_list) = 3
    /\ convergence_count > 0
    /\ convergence_count < 3

\* fewer parameters exist than n_top_params asks for
C21_WitnessShortList ==
    /\ Analysed
    /\ Len(top_params_list) = 1
    /\ n_top_params = 2
    /\ convergence_count = 1

\* C22: for a parameter present in every elite trial, with at least 3 elite
\* trials, the check of study_analysis.py (str() of every elite trial's
\* value) and the check of improved_study_analysis.py (str() of the values
\* of the elite trials that have it) give the same answer.
C22_ChecksAgree ==
    /\ pc = "legacy" =>
          \A p \in DOMAIN support :
             (Len(elite_trials) >= 3 /\ InEveryElite(p)) =>
                ((support[p] = "STABLE") <=> StablePresent(EliteSeq, p))
    /\ pc = "improved" =>
          \A p \in DOMAIN support :
             (Len(elite_trials) >= 3 /\ InEveryElite(p)) =>
                ((support[p] = "STABLE") <=> StableAll(EliteSeq, p))

\* three elite trials all have the parameter, with values that differ but
\* print alike, and the legacy table calls it stable
C22_Witness ==
    /\ pc = "legacy"
    /\ Len(elite_trials) >= 3
    /\ \E p \in DOMAIN support :
          /\ InEveryElite(p)
          /\ support[p] = "STABLE"
          /\ \E t, u \in EliteSet : t.params[p] # u.params[p]

----------------------------------------------------------------------------
(* The trial launcher *)

Running == {j \in DOMAIN jobs : ~jobs[j].ended}

LaunchEnded == lpc \in {"done", "returned", "raised"}

\* gpu_ids is 'all' or a comma-separated list of digit strings
GpuIdsWellFormed ==
    \/ args.gpu_ids = <<"all">>
    \/ \A k \in DOMAIN args.gpu_ids : args.gpu_ids[k] \in {"0", "1"}

InputValid == args.num_trials >= 1 /\ GpuIdsWellFormed /\ args.config_exists

\* C23: the launcher runs the trials one after another in increasing order:
\* at most one job process runs at any time, a job is started only after
\* the earlier ones have ended, every job has its own later timestamp, and
\* when Docker or Conda is available exactly num_trials jobs are started,
\* one per trial 1..num_trials.
C23_OneJobPerTrialInOrder ==
    called = "main" =>
        /\ Cardinality(Running) <= 1
        /\ \A j, k \in DOMAIN jobs :
              j < k => /\ jobs[j].trial < jobs[k].trial
                       /\ jobs[j].ended
                       /\ jobs[j].timestamp < jobs[k].timestamp
        /\ (LaunchEnded /\ InputValid /\ (tools.docker \/ tools.conda)) =>
              /\ Len(jobs) = args.num_trials
              /\ \A j \in DOMAIN jobs : jobs[j].trial = j

\* C24: no job is started when validation fails: with num_trials < 1, a
\* malformed gpu_ids or a missing config file main returns before the first
\* trial, and run_job with an empty run_timestamp raises before it starts a
\* process.
C24_NoJobWithoutValidInput ==
    /\ (called = "main" /\ lpc # "main" /\ ~InputValid) =>
          /\ lpc = "returned"
          /\ jobs = << >>
          /\ trial_num = 0
          /\ run_timestamp = EmptyTimestamp
    /\ (called = "run_job" /\ lpc # "run_job"
          /\ args.run_timestamp = EmptyTimestamp) =>
          /\ lpc = "raised"
          /\ launch_error = "ValueError"
          /\ jobs = << >>

\* main returned for a missing config file on a machine that could have
\* run the trials
C24_Witness ==
    /\ called = "main"
    /\ lpc = "returned"
    /\ tools.conda
    /\ args.num_trials >= 1
    /\ GpuIdsWellFormed
    /\ ~args.config_exists
    /\ jobs = << >>

\* run_job raised for an empty run_timestamp on such a machine
C24_WitnessEmptyTimestamp ==
    /\ called = "run_job"
    /\ lpc = "raised"
    /\ launch_error = "ValueError"
    /\ tools.conda
    /\ tools.nvidia_smi
    /\ args.run_timestamp = EmptyTimestamp

\* main returned for each of the other two checks
C24_WitnessOtherChecks ==
    /\ called = "main"
    /\ lpc = "returned"
    /\ tools.conda
    /\ args.config_exists
    /\ \/ args.num_trials < 1 /\ GpuIdsWellFormed
       \/ args.num_trials >= 1 /\ ~GpuIdsWellFormed

====
